---- MODULE Spec2Model ----
(***************************************************************************)
(* The Mongoose checkpoint script (src/index.js): ten callback-style       *)
(* data-access functions over the Person model, the cbToPromise adapter,   *)
(* and runAllTasks, which awaits them one after another.                   *)
(*                                                                         *)
(* The collection is a function from _id to the stored fields.  A model    *)
(* call is issued by the synchronous part of a function (the call is then  *)
(* "in flight"), and settled by a later step that runs the function's      *)
(* .then/.catch handlers, which invoke the Node-style callback `done`.     *)
(* A call that rejects leaves the collection as it was.                    *)
(***************************************************************************)
EXTENDS Integers, Sequences, FiniteSets, TLC

VARIABLES
    coll,        \* the people collection: _id -> [name, age, favoriteFoods]
    nextId,      \* next ObjectId the client generates
    op,          \* the function being run: its name, arguments and stage
    inflight,    \* number of model calls issued and not yet settled
    doneCalls,   \* invocations of `done` by the function being run, in order
    dbOutcome,   \* how the latest model call settled: [fn, err, data]
    collBefore,  \* the collection when the function being run was called
    promise,     \* the promise cbToPromise returned for the function being run
    pc,          \* position of start(): connecting, running, closed, ...
    locals,      \* runAllTasks' awaited results so far (savedPerson, many, ...)
    started,     \* names of the functions runAllTasks has called, in order
    log,         \* console lines written by start() and runAllTasks
    callsLeft    \* calls the stand-alone harness may still make

vars == <<coll, nextId, op, inflight, doneCalls, dbOutcome, collBefore,
          promise, pc, locals, started, log, callsLeft>>

(***************************************************************************)
(* Bounds                                                                  *)
(***************************************************************************)
\* documents that may already be in the collection when the script connects
MaxPre == 3
\* calls made by the stand-alone harness in one behaviour
MaxCalls == 3

(***************************************************************************)
(* Values                                                                  *)
(***************************************************************************)
\* errors a model call can reject with
Errs == {"MongoNetworkError", "MongoServerError"}

Null == "null"

\* Every value handed to `done` or held by a promise, in one shape:
\* undefined, null, one document, an array of documents, an operation result.
DUndef == [kind |-> "undefined", docs |-> <<>>, n |-> 0]
DNull == [kind |-> "null", docs |-> <<>>, n |-> 0]
DDoc(d) == [kind |-> "doc", docs |-> <<d>>, n |-> 0]
DList(s) == [kind |-> "list", docs |-> s, n |-> 0]
DResult(k) == [kind |-> "result", docs |-> <<>>, n |-> k]

Range(s) == {s[i] : i \in 1..Len(s)}

Min(a, b) == IF a <= b THEN a ELSE b

\* personModel.js: a document is _id plus the three schema fields
Person(id, body) ==
    [_id |-> id, name |-> body.name, age |-> body.age,
     favoriteFoods |-> body.favoriteFoods]

Body(d) == [name |-> d.name, age |-> d.age, favoriteFoods |-> d.favoriteFoods]

\* the stored document with the given _id
DocOf(c, id) == Person(id, c[id])

peopleData ==
    << [name |-> "John", age |-> 25, favoriteFoods |-> <<"pizza", "burritos">>],
       [name |-> "Mary", age |-> 30, favoriteFoods |-> <<"salad", "burritos">>],
       [name |-> "Mary", age |-> 22, favoriteFoods |-> <<"pasta">>],
       [name |-> "Peter", age |-> 28, favoriteFoods |-> <<"burritos", "burger">>],
       [name |-> "Alice", age |-> 35, favoriteFoods |-> <<"sushi">> ] >>

\* Documents left in the collection by earlier runs or other programs.
PreDoc(i) ==
    CASE i % 3 = 1 -> [name |-> "John", age |-> 33, favoriteFoods |-> <<"burritos">>]
      [] i % 3 = 2 -> [name |-> "Peter", age |-> 20, favoriteFoods |-> <<"tacos", "burritos">>]
      [] OTHER -> [name |-> "Mary", age |-> 51, favoriteFoods |-> <<"burritos">>]

\* Binary string order of the names in use (sort({ name: 1 })).
NameRank(name) ==
    CASE name = "Alice" -> 1
      [] name = "Charlie" -> 2
      [] name = "John" -> 3
      [] name = "Mary" -> 4
      [] name = "Peter" -> 5
      [] OTHER -> 6

\* ids in ascending order: the order a collection scan returns documents
RECURSIVE IdSeq(_)
IdSeq(S) ==
    IF S = {} THEN <<>>
    ELSE LET m == CHOOSE x \in S : \A y \in S : x <= y
         IN <<m>> \o IdSeq(S \ {m})

Insert(c, d) == [i \in DOMAIN c \cup {d._id} |-> IF i = d._id THEN Body(d) ELSE c[i]]

RECURSIVE InsertAll(_, _)
InsertAll(c, ds) ==
    IF ds = <<>> THEN c ELSE InsertAll(Insert(c, Head(ds)), Tail(ds))

Remove(c, S) == [i \in DOMAIN c \ S |-> c[i]]

ByName(c, name) == {i \in DOMAIN c : c[i].name = name}

ByFood(c, food) == {i \in DOMAIN c : food \in Range(c[i].favoriteFoods)}

(***************************************************************************)
(* Model calls.  Each operator is the set of ways the call can settle:     *)
(* [coll |-> collection afterwards, err |-> Null or the error,             *)
(*  data |-> the value the promise fulfils with].                          *)
(***************************************************************************)
Fulfilled(c, data) == [coll |-> c, err |-> Null, data |-> data]

Rejections(c) == {[coll |-> c, err |-> e, data |-> DUndef] : e \in Errs}

\* person.save() of a new document
SaveNew(c, person) == {Fulfilled(Insert(c, person), DDoc(person))} \cup Rejections(c)

\* Person.create(arrayOfPeople)
Create(c, people) == {Fulfilled(InsertAll(c, people), DList(people))} \cup Rejections(c)

\* Person.find({ name: personName })
Find(c, name) ==
    {Fulfilled(c, DList([k \in 1..Cardinality(ByName(c, name)) |->
                            DocOf(c, IdSeq(ByName(c, name))[k])]))}
        \cup Rejections(c)

\* Person.findOne({ favoriteFoods: food }): some matching document, or null
FindOne(c, food) ==
    (IF ByFood(c, food) = {} THEN {Fulfilled(c, DNull)}
     ELSE {Fulfilled(c, DDoc(DocOf(c, i))) : i \in ByFood(c, food)})
        \cup Rejections(c)

\* Person.findById(personId)
FindById(c, id) ==
    {Fulfilled(c, IF id \in DOMAIN c THEN DDoc(DocOf(c, id)) ELSE DNull)}
        \cup Rejections(c)

\* person.favoriteFoods.push('hamburger') on the document found
PushHamburger(person) ==
    [person EXCEPT !.favoriteFoods = Append(@, "hamburger")]

\* a save() that fulfils without storing the pushed element
SavePushedLost(c, person) == {Fulfilled(c, DDoc(person))} \cup Rejections(c)

\* person.save() of a found document whose favoriteFoods was pushed to:
\* the pushed element is appended to the stored array
SavePushed(c, person) ==
    {Fulfilled([c EXCEPT ![person._id].favoriteFoods = Append(@, "hamburger")],
               DDoc(person))}
        \cup Rejections(c)

\* the document findOneAndUpdate would hand back without { new: true }
ReturnedOld(before, after) == before

\* the document findOneAndUpdate hands back under { new: true }
Returned(before, after) == after

\* Person.findOneAndUpdate({ name: personName }, { age: 20 }, { new: true })
FindOneAndUpdate(c, name) ==
    (IF ByName(c, name) = {} THEN {Fulfilled(c, DNull)}
     ELSE {Fulfilled([c EXCEPT ![i].age = 20],
                     DDoc(Returned(DocOf(c, i), DocOf([c EXCEPT ![i].age = 20], i))))
              : i \in ByName(c, name)})
        \cup Rejections(c)

\* Person.findByIdAndRemove(personId)
FindByIdAndRemove(c, id) ==
    {IF id \in DOMAIN c THEN Fulfilled(Remove(c, {id}), DDoc(DocOf(c, id)))
     ELSE Fulfilled(c, DNull)}
        \cup Rejections(c)

\* the document a deleteOne({ name: 'Mary' }) would delete
DoomedOne(c) ==
    IF ByName(c, "Mary") = {} THEN {}
    ELSE {CHOOSE i \in ByName(c, "Mary") : \A j \in ByName(c, "Mary") : i <= j}

\* the documents deleteMany({ name: 'Mary' }) deletes
Doomed(c) == ByName(c, "Mary")

\* Person.deleteMany({ name: 'Mary' })
DeleteMany(c) ==
    {Fulfilled(Remove(c, Doomed(c)), DResult(Cardinality(Doomed(c))))}
        \cup Rejections(c)

\* documents of S that a sort({ name: -1 }) may put first
FirstDescending(c, S) ==
    {i \in S : \A j \in S : NameRank(c[i].name) >= NameRank(c[j].name)}

\* documents of S that sort({ name: 1 }) may put first
First(c, S) == {i \in S : \A j \in S : NameRank(c[i].name) <= NameRank(c[j].name)}

\* .sort({ name: 1 }).limit(k): the orders a sort by name may produce, cut
\* to k documents; documents with equal names come in any order
RECURSIVE SortLimit(_, _, _)
SortLimit(c, S, k) ==
    IF k = 0 \/ S = {} THEN {<<>>}
    ELSE UNION {{<<i>> \o t : t \in SortLimit(c, S \ {i}, k - 1)} : i \in First(c, S)}

\* .select('-age')
Select(d) == [_id |-> d._id, name |-> d.name, favoriteFoods |-> d.favoriteFoods]

\* Person.find({ favoriteFoods: 'burritos' }).sort(..).limit(2).select('-age').exec()
QueryExec(c) ==
    {Fulfilled(c, DList([k \in 1..Len(ids) |-> Select(DocOf(c, ids[k]))]))
        : ids \in SortLimit(c, ByFood(c, "burritos"), 2)}
        \cup Rejections(c)

(***************************************************************************)
(* cbToPromise and the callback it hands to a function                     *)
(***************************************************************************)
Pending == [state |-> "pending", err |-> Null, value |-> DUndef]

NoOutcome == [fn |-> "none", err |-> Null, data |-> DUndef]

Idle == [fn |-> "none", stage |-> "idle", id |-> 0, name |-> "", docs |-> <<>>,
         value |-> DUndef]

\* .then(data => done(null, data))
OnFulfilled(data) == [err |-> Null, data |-> data]

\* .catch(err => done(err))
OnRejected(e) == [err |-> e, data |-> DUndef]

\* the callback (err, data) => { if (err) return reject(err); resolve(data); }
\* settling a promise that is already settled does nothing
Done(call) ==
    /\ doneCalls' = Append(doneCalls, call)
    /\ promise' =
          IF promise.state # "pending" THEN promise
          ELSE IF call.err # Null
               THEN [state |-> "rejected", err |-> call.err, value |-> DUndef]
               ELSE [state |-> "resolved", err |-> Null, value |-> call.data]

\* .then(data => done(null, data)).catch(err => done(err)) on a settled call
ThenCatch(r) ==
    IF r.err = Null THEN Done(OnFulfilled(r.data)) ELSE Done(OnRejected(r.err))

\* new Promise((resolve, reject) => { fn(callback) })
cbToPromise(fn) ==
    /\ promise' = Pending
    /\ doneCalls' = <<>>
    /\ dbOutcome' = NoOutcome
    /\ collBefore' = coll
    /\ fn

(***************************************************************************)
(* The ten functions: the synchronous part, which issues the model call    *)
(***************************************************************************)
Issue(fn, stage, id, name, docs) ==
    /\ op' = [fn |-> fn, stage |-> stage, id |-> id, name |-> name,
              docs |-> docs, value |-> DUndef]
    /\ inflight' = inflight + 1

createAndSavePerson ==
    /\ Issue("createAndSavePerson", "save", nextId, "",
             <<Person(nextId, [name |-> "Charlie", age |-> 40,
                               favoriteFoods |-> <<"sandwich">>])>>)
    /\ nextId' = nextId + 1

createManyPeople(arrayOfPeople) ==
    /\ Issue("createManyPeople", "create", 0, "",
             [k \in 1..Len(arrayOfPeople) |-> Person(nextId + k - 1, arrayOfPeople[k])])
    /\ nextId' = nextId + Len(arrayOfPeople)

findPeopleByName(personName) ==
    /\ Issue("findPeopleByName", "find", 0, personName, <<>>)
    /\ UNCHANGED nextId

findOneByFood(food) ==
    /\ Issue("findOneByFood", "findOne", 0, food, <<>>)
    /\ UNCHANGED nextId

findPersonById(personId) ==
    /\ Issue("findPersonById", "findById", personId, "", <<>>)
    /\ UNCHANGED nextId

findEditThenSave(personId) ==
    /\ Issue("findEditThenSave", "findById", personId, "", <<>>)
    /\ UNCHANGED nextId

findAndUpdate(personName) ==
    /\ Issue("findAndUpdate", "findOneAndUpdate", 0, personName, <<>>)
    /\ UNCHANGED nextId

removeById(personId) ==
    /\ Issue("removeById", "findByIdAndRemove", personId, "", <<>>)
    /\ UNCHANGED nextId

removeManyPeople ==
    /\ Issue("removeManyPeople", "deleteMany", 0, "", <<>>)
    /\ UNCHANGED nextId

queryChain ==
    /\ Issue("queryChain", "exec", 0, "", <<>>)
    /\ UNCHANGED nextId

(***************************************************************************)
(* The ten functions: the handlers that run when the model call settles    *)
(***************************************************************************)
\* a one-call function: the call settles as r and the handlers call done
Settle(r) ==
    /\ coll' = r.coll
    /\ dbOutcome' = [fn |-> op.fn, err |-> r.err, data |-> r.data]
    /\ ThenCatch(r)
    /\ op' = [op EXCEPT !.stage = "settled"]
    /\ inflight' = inflight - 1
    /\ UNCHANGED <<nextId, collBefore, pc, locals, started, log, callsLeft>>

createAndSavePersonSettled ==
    /\ op.fn = "createAndSavePerson" /\ op.stage = "save"
    /\ \E r \in SaveNew(coll, op.docs[1]) : Settle(r)

createManyPeopleSettled ==
    /\ op.fn = "createManyPeople" /\ op.stage = "create"
    /\ \E r \in Create(coll, op.docs) : Settle(r)

findPeopleByNameSettled ==
    /\ op.fn = "findPeopleByName" /\ op.stage = "find"
    /\ \E r \in Find(coll, op.name) : Settle(r)

findOneByFoodSettled ==
    /\ op.fn = "findOneByFood" /\ op.stage = "findOne"
    /\ \E r \in FindOne(coll, op.name) : Settle(r)

findPersonByIdSettled ==
    /\ op.fn = "findPersonById" /\ op.stage = "findById"
    /\ \E r \in FindById(coll, op.id) : Settle(r)

findAndUpdateSettled ==
    /\ op.fn = "findAndUpdate" /\ op.stage = "findOneAndUpdate"
    /\ \E r \in FindOneAndUpdate(coll, op.name) : Settle(r)

removeByIdSettled ==
    /\ op.fn = "removeById" /\ op.stage = "findByIdAndRemove"
    /\ \E r \in FindByIdAndRemove(coll, op.id) : Settle(r)

removeManyPeopleSettled ==
    /\ op.fn = "removeManyPeople" /\ op.stage = "deleteMany"
    /\ \E r \in DeleteMany(coll) : Settle(r)

queryChainSettled ==
    /\ op.fn = "queryChain" /\ op.stage = "exec"
    /\ \E r \in QueryExec(coll) : Settle(r)

\* findEditThenSave, findById settles.  Rejected: the two .then handlers are
\* skipped and .catch calls done(err).  Fulfilled with null: the first .then
\* calls done(new Error('Person not found')) and returns undefined, which the
\* second .then will receive.  Fulfilled with a document: the first .then
\* pushes 'hamburger' and calls person.save().
findEditThenSaveFound ==
    /\ op.fn = "findEditThenSave" /\ op.stage = "findById"
    /\ \E r \in FindById(coll, op.id) :
          /\ coll' = r.coll
          /\ dbOutcome' = [fn |-> op.fn, err |-> r.err, data |-> r.data]
          /\ IF r.err # Null
             THEN /\ Done(OnRejected(r.err))
                  /\ op' = [op EXCEPT !.stage = "settled"]
                  /\ inflight' = inflight - 1
             ELSE IF r.data = DNull
             THEN /\ Done(OnRejected("Person not found"))
                  /\ op' = [op EXCEPT !.stage = "then2", !.value = DUndef]
                  /\ inflight' = inflight - 1
             ELSE /\ op' = [op EXCEPT !.stage = "save",
                                      !.docs = <<PushHamburger(r.data.docs[1])>>]
                  /\ inflight' = inflight
                  /\ UNCHANGED <<doneCalls, promise>>
    /\ UNCHANGED <<nextId, collBefore, pc, locals, started, log, callsLeft>>

\* findEditThenSave, person.save() settles.  Rejected: .catch calls done(err).
\* Fulfilled: the second .then will receive the saved document.
findEditThenSaveSaved ==
    /\ op.fn = "findEditThenSave" /\ op.stage = "save"
    /\ \E r \in SavePushed(coll, op.docs[1]) :
          /\ coll' = r.coll
          /\ dbOutcome' = [fn |-> op.fn, err |-> r.err, data |-> r.data]
          /\ IF r.err # Null
             THEN /\ Done(OnRejected(r.err))
                  /\ op' = [op EXCEPT !.stage = "settled"]
             ELSE /\ op' = [op EXCEPT !.stage = "then2", !.value = r.data]
                  /\ UNCHANGED <<doneCalls, promise>>
    /\ inflight' = inflight - 1
    /\ UNCHANGED <<nextId, collBefore, pc, locals, started, log, callsLeft>>

\* findEditThenSave, the second handler: .then(updatedPerson => done(null, updatedPerson))
findEditThenSaveThen2 ==
    /\ op.fn = "findEditThenSave" /\ op.stage = "then2"
    /\ Done(OnFulfilled(op.value))
    /\ op' = [op EXCEPT !.stage = "settled"]
    /\ UNCHANGED <<coll, nextId, inflight, dbOutcome, collBefore, pc, locals,
                   started, log, callsLeft>>

Handlers ==
    \/ createAndSavePersonSettled
    \/ createManyPeopleSettled
    \/ findPeopleByNameSettled
    \/ findOneByFoodSettled
    \/ findPersonByIdSettled
    \/ findEditThenSaveFound
    \/ findEditThenSaveSaved
    \/ findEditThenSaveThen2
    \/ findAndUpdateSettled
    \/ removeByIdSettled
    \/ removeManyPeopleSettled
    \/ queryChainSettled

(***************************************************************************)
(* start() and runAllTasks                                                 *)
(***************************************************************************)
\* the order in which runAllTasks calls the functions
TaskOrder ==
    << "createAndSavePerson", "createManyPeople", "findPeopleByName",
       "findOneByFood", "findPersonById", "findEditThenSave", "findAndUpdate",
       "removeById", "removeManyPeople", "queryChain" >>

\* resuming once p is settled either way, as if the rejection were swallowed
AwaitedSettled == promise.state # "pending"

\* `await p` resumes the function with p's value once p is fulfilled
Awaited == promise.state = "resolved"

\* `await p` throws p's error once p is rejected
AwaitThrows == promise.state = "rejected"

\* mongoose.connect(...).then: logs, enters runAllTasks, which runs up to its
\* first await
connectThen ==
    /\ pc = "connecting"
    /\ pc' = "running"
    /\ log' = log \cup {"Successfully connected to MongoDB"}
    /\ started' = Append(started, "createAndSavePerson")
    /\ cbToPromise(createAndSavePerson)
    /\ UNCHANGED <<coll, locals, callsLeft>>

\* mongoose.connect(...).catch
connectCatch ==
    /\ pc = "connecting"
    /\ pc' = "connectError"
    /\ log' = log \cup {"MongoDB connection error"}
    /\ UNCHANGED <<coll, nextId, op, inflight, doneCalls, dbOutcome, collBefore,
                   promise, locals, started, callsLeft>>

\* runAllTasks resumes after its k-th await: it keeps the result, logs it and
\* calls the next function
Resume(k, fn) ==
    /\ pc = "running"
    /\ Len(locals) = k - 1
    /\ Awaited
    /\ locals' = Append(locals, promise.value)
    /\ started' = Append(started, TaskOrder[k + 1])
    /\ cbToPromise(fn)
    /\ UNCHANGED <<coll, pc, log, callsLeft>>

runAllTasks2 == Resume(1, createManyPeople(peopleData))

runAllTasks3 == Resume(2, findPeopleByName("Mary"))

runAllTasks4 == Resume(3, findOneByFood("burritos"))

runAllTasks5 ==
    LET savedPerson == locals[1].docs[1]
    IN Resume(4, findPersonById(savedPerson._id))

runAllTasks6 ==
    LET savedPerson == locals[1].docs[1]
    IN Resume(5, findEditThenSave(savedPerson._id))

runAllTasks7 == Resume(6, findAndUpdate("John"))

runAllTasks8 ==
    LET many == locals[2].docs
    IN Resume(7, removeById(many[1]._id))

runAllTasks9 == Resume(8, removeManyPeople)

runAllTasks10 == Resume(9, queryChain)

\* runAllTasks resumes after its last await and returns; start() logs
\* 'All tasks completed.' and closes the connection
runAllTasksReturn ==
    /\ pc = "running"
    /\ Len(locals) = 9
    /\ Awaited
    /\ locals' = Append(locals, promise.value)
    /\ log' = log \cup {"---- Tasks finished ----", "All tasks completed.",
                        "Connection closed."}
    /\ pc' = "closed"
    /\ UNCHANGED <<coll, nextId, op, inflight, doneCalls, dbOutcome, collBefore,
                   promise, started, callsLeft>>

\* an await in runAllTasks throws; start() logs the error and closes the
\* connection
runAllTasksThrow ==
    /\ pc = "running"
    /\ AwaitThrows
    /\ log' = log \cup {"Error running tasks", "Connection closed."}
    /\ pc' = "closed"
    /\ UNCHANGED <<coll, nextId, op, inflight, doneCalls, dbOutcome, collBefore,
                   promise, locals, started, callsLeft>>

(***************************************************************************)
(* Specifications                                                          *)
(***************************************************************************)
\* the collections the program may find when it connects
Collections == {[i \in S |-> PreDoc(i)] : S \in SUBSET (1..MaxPre)}

InitCommon ==
    /\ coll \in Collections
    /\ nextId = MaxPre + 1
    /\ op = Idle
    /\ inflight = 0
    /\ doneCalls = <<>>
    /\ dbOutcome = NoOutcome
    /\ collBefore = coll
    /\ promise = Pending
    /\ locals = <<>>
    /\ started = <<>>
    /\ log = {}

\* node src/index.js
Init == InitCommon /\ pc = "connecting" /\ callsLeft = 0

Next ==
    \/ connectThen
    \/ connectCatch
    \/ runAllTasks2
    \/ runAllTasks3
    \/ runAllTasks4
    \/ runAllTasks5
    \/ runAllTasks6
    \/ runAllTasks7
    \/ runAllTasks8
    \/ runAllTasks9
    \/ runAllTasks10
    \/ runAllTasksReturn
    \/ runAllTasksThrow
    \/ Handlers

Spec == Init /\ [][Next]_vars

\* Each function on its own: any of the ten is called through cbToPromise with
\* any argument, on any collection, once the previous call has finished.
Names == {"John", "Mary", "Alice", "Nobody"}

Foods == {"burritos", "sushi"}

Invoke ==
    /\ pc = "harness"
    /\ op.stage \in {"idle", "settled"}
    /\ callsLeft > 0
    /\ callsLeft' = callsLeft - 1
    /\ cbToPromise(\/ createAndSavePerson
                   \/ createManyPeople(peopleData)
                   \/ \E personName \in Names : findPeopleByName(personName)
                   \/ \E food \in Foods : findOneByFood(food)
                   \/ \E personId \in 1..nextId : findPersonById(personId)
                   \/ \E personId \in 1..nextId : findEditThenSave(personId)
                   \/ \E personName \in Names : findAndUpdate(personName)
                   \/ \E personId \in 1..nextId : removeById(personId)
                   \/ removeManyPeople
                   \/ queryChain)
    /\ UNCHANGED <<coll, pc, locals, started, log>>

OpInit == InitCommon /\ pc = "harness" /\ callsLeft = MaxCalls

OpNext == Invoke \/ Handlers

OpSpec == OpInit /\ [][OpNext]_vars

(***************************************************************************)
(* Properties                                                              *)
(***************************************************************************)
\* the function being run has finished: its model calls have settled and
\* its handlers have run
Finished == op.stage = "settled"

\* the function being run finished with its last model call fulfilled
Succeeded == Finished /\ dbOutcome.err = Null

\* the first report the callback received was a success / a failure
ReportedSuccess == doneCalls # <<>> /\ doneCalls[1].err = Null

ReportedFailure == doneCalls # <<>> /\ doneCalls[1].err # Null

IsPrefix(s, t) == Len(s) <= Len(t) /\ \A k \in 1..Len(s) : s[k] = t[k]

\* C1, state part: at most one model call is in flight; the functions were
\* called in the order of TaskOrder without gaps; the function in flight is
\* the last one started; 'All tasks completed.' is in the log only when all
\* ten were started and all ten results were obtained.
C1State ==
    /\ inflight \in {0, 1}
    /\ IsPrefix(started, TaskOrder)
    /\ (pc = "running" => op.fn = started[Len(started)])
    /\ Len(locals) <= Len(started)
    /\ Len(started) <= Len(locals) + 1
    /\ ("All tasks completed." \in log =>
            /\ started = TaskOrder
            /\ Len(locals) = 10
            /\ ReportedSuccess
            /\ inflight = 0)

\* C1, step part: a function other than the first is started, and a result
\* is obtained, only in a step taken when the callback of the function
\* before has reported success and no call is in flight; once a callback
\* has reported a failure no function is started any more.
C1Step ==
    /\ (started' # started /\ started # <<>>) =>
            /\ ReportedSuccess
            /\ Finished
            /\ inflight = 0
            /\ promise.state = "resolved"
    /\ started' # started => started' = Append(started, TaskOrder[Len(started) + 1])
    /\ locals' # locals =>
            /\ ReportedSuccess
            /\ locals' = Append(locals, doneCalls[1].data)
    /\ ReportedFailure => (started' = started /\ locals' = locals /\ ReportedFailure')

\* C1: runAllTasks runs the ten functions strictly one after another in
\* the fixed order; a function is started only after the one before it has
\* reported success through its callback, so at most one model call is in
\* flight; a failure stops every later function from starting; and 'All
\* tasks completed.' is logged only after all ten have succeeded.
C1Sequential == [] C1State /\ [][C1Step]_vars

\* C1 witness: a run in which all ten functions succeeded and the final
\* line was logged
C1Witness ==
    /\ pc = "closed"
    /\ "All tasks completed." \in log
    /\ started = TaskOrder
    /\ Len(locals) = 10

\* the single invocation of `done` that passes a settled call through
PassedThrough ==
    IF dbOutcome.err # Null
    THEN [err |-> dbOutcome.err, data |-> DUndef]
    ELSE [err |-> Null, data |-> dbOutcome.data]

\* C2: for each of the ten functions, when the model call rejects with e
\* the callback is invoked as done(e) with no data, and when it fulfils with
\* v the callback is invoked as done(null, v); nothing else reaches the
\* callback.
C2PassThrough == Finished => doneCalls = <<PassedThrough>>

\* C2 restricted to what the functions do: the nine one-call functions
\* pass the outcome through, once; findEditThenSave does so when findById
\* or save rejects and when save fulfils, but when findById fulfils with
\* null it invokes done(Error('Person not found')) and then done(null,
\* undefined).
C2Observed ==
    Finished =>
        IF op.fn = "findEditThenSave" /\ dbOutcome.err = Null /\ dbOutcome.data = DNull
        THEN /\ doneCalls = << [err |-> "Person not found", data |-> DUndef],
                              [err |-> Null, data |-> DUndef] >>
             /\ promise.state = "rejected"
             /\ coll = collBefore
        ELSE doneCalls = <<PassedThrough>>

\* C3: when a document with the given id exists and findEditThenSave
\* succeeds, that document's favoriteFoods is its previous list followed by
\* one 'hamburger', its name and age and every other document are as
\* before, and done receives (null, the updated document), once.
C3FindEditThenSave ==
    (op.fn = "findEditThenSave" /\ Succeeded /\ op.id \in DOMAIN collBefore) =>
        /\ DOMAIN coll = DOMAIN collBefore
        /\ coll[op.id].favoriteFoods =
              Append(collBefore[op.id].favoriteFoods, "hamburger")
        /\ coll[op.id].name = collBefore[op.id].name
        /\ coll[op.id].age = collBefore[op.id].age
        /\ \A i \in DOMAIN collBefore \ {op.id} : coll[i] = collBefore[i]
        /\ doneCalls = <<[err |-> Null, data |-> DDoc(DocOf(coll, op.id))]>>

\* C3 witness: findEditThenSave succeeded on a document that already had a
\* 'hamburger', next to other documents
C3Witness ==
    /\ op.fn = "findEditThenSave" /\ Succeeded /\ op.id \in DOMAIN collBefore
    /\ "hamburger" \in Range(collBefore[op.id].favoriteFoods)
    /\ Cardinality(DOMAIN collBefore) >= 2

\* C4: when findAndUpdate succeeds and some document has the name, exactly
\* one such document has its age set to 20, nothing else changes, and done
\* receives (null, that document as it is after the update); when no
\* document has the name the collection is as before and done receives
\* (null, null).
C4FindAndUpdate ==
    (op.fn = "findAndUpdate" /\ Succeeded) =>
        IF ByName(collBefore, op.name) = {}
        THEN /\ coll = collBefore
             /\ doneCalls = <<[err |-> Null, data |-> DNull]>>
        ELSE \E i \in ByName(collBefore, op.name) :
                /\ coll = [collBefore EXCEPT ![i].age = 20]
                /\ doneCalls = <<[err |-> Null, data |-> DDoc(DocOf(coll, i))]>>
                /\ doneCalls[1].data.docs[1].age = 20

\* C4 witness: findAndUpdate succeeded where two documents had the name and
\* the one updated had another age before
C4Witness ==
    /\ op.fn = "findAndUpdate" /\ Succeeded
    /\ Cardinality(ByName(collBefore, op.name)) >= 2
    /\ coll # collBefore

\* C5: after removeManyPeople succeeds no document named 'Mary' remains,
\* every other document is as before, none is added, and done receives
\* (null, result) with deletedCount the number of documents named 'Mary'
\* just before the call.
C5RemoveManyPeople ==
    (op.fn = "removeManyPeople" /\ Succeeded) =>
        /\ ByName(coll, "Mary") = {}
        /\ DOMAIN coll = DOMAIN collBefore \ ByName(collBefore, "Mary")
        /\ \A i \in DOMAIN coll : coll[i] = collBefore[i]
        /\ doneCalls = <<[err |-> Null,
                          data |-> DResult(Cardinality(ByName(collBefore, "Mary")))]>>

\* C5 witness: removeManyPeople succeeded where two or more documents were
\* named 'Mary' and others were not
C5Witness ==
    /\ op.fn = "removeManyPeople" /\ Succeeded
    /\ Cardinality(ByName(collBefore, "Mary")) >= 2
    /\ DOMAIN coll # {}

\* C6: when queryChain succeeds done receives (null, list), once, where
\* every listed document is a stored document whose favoriteFoods includes
\* 'burritos', the list is in ascending order of name, its length is the
\* smaller of 2 and the number of matching documents, no matching document
\* left out sorts before a listed one, no listed document has an age field,
\* and the collection is as before.
C6QueryChain ==
    (op.fn = "queryChain" /\ Succeeded) =>
        /\ Len(doneCalls) = 1
        /\ doneCalls[1].err = Null
        /\ doneCalls[1].data.kind = "list"
        /\ coll = collBefore
        /\ LET list == doneCalls[1].data.docs
               matching == {i \in DOMAIN coll : "burritos" \in Range(coll[i].favoriteFoods)}
               listed == {list[k]._id : k \in 1..Len(list)}
           IN /\ Len(list) = Min(2, Cardinality(matching))
              /\ Cardinality(listed) = Len(list)
              /\ listed \subseteq matching
              /\ \A k \in 1..Len(list) :
                    /\ DOMAIN list[k] = {"_id", "name", "favoriteFoods"}
                    /\ list[k].name = coll[list[k]._id].name
                    /\ list[k].favoriteFoods = coll[list[k]._id].favoriteFoods
              /\ \A j, k \in 1..Len(list) :
                    j < k => NameRank(list[j].name) <= NameRank(list[k].name)
              /\ \A i \in matching \ listed : \A k \in 1..Len(list) :
                    NameRank(list[k].name) <= NameRank(coll[i].name)

\* C6 witness: queryChain succeeded where three or more documents matched,
\* under different names, and some document did not match
C6Witness ==
    /\ op.fn = "queryChain" /\ Succeeded
    /\ Cardinality(ByFood(coll, "burritos")) >= 3
    /\ Cardinality({coll[i].name : i \in ByFood(coll, "burritos")}) >= 2
    /\ ByFood(coll, "burritos") # DOMAIN coll
    /\ Len(doneCalls[1].data.docs) = 2

====
